---- MODULE Spec2Model ----
(***************************************************************************)
(* Model of control-api.py: the single-slot operation gate run_compose and *)
(* the HTTP handler around it.                                             *)
(*                                                                         *)
(* Two specifications share the same handler steps:                        *)
(*   Spec      every request is handled by its own thread, so calls of     *)
(*             run_compose interleave (the concurrency the lock _lock and  *)
(*             the slot _running["op"] are written for);                   *)
(*   SpecMain  the server that main() builds, http.server.HTTPServer:      *)
(*             connections wait in the listen backlog and one thread       *)
(*             handles one request to completion before the next.          *)
(*                                                                         *)
(* Every run of SpecMain is a run of Spec in which the requests happen to  *)
(* be handled one after the other, so what holds of Spec holds of the      *)
(* server as built. Subprocesses are modelled by their outcomes: started   *)
(* or not (tool missing), exit code and output, or killed at the timeout.  *)
(***************************************************************************)
EXTENDS Integers, Sequences, FiniteSets, TLC

\* ---------------------------------------------------------------- bounds
NumThreads == 2        \* requests, each with its own thread, in a run of Spec
MaxBacklog == 1        \* connections waiting in the listen backlog (SpecMain)
MaxRequests == 2       \* connections arriving in a run of SpecMain

\* ------------------------------------------------------ program constants
TAILSCALE_TIMEOUT == 5
COMPOSE_TIMEOUT == 300

Threads == 1..NumThreads
NoThread == 0
MainThread == 1
None == "None"

VARIABLES
    environ,      \* os.environ of the process (never written by the program)
    lock,         \* _lock: the thread inside a `with _lock:` block, or NoThread
    running,      \* _running["op"]
    backlog,      \* connections accepted by the kernel, not yet handled
    received,     \* number of requests received so far
    pc,           \* per thread: position in the handler / in run_compose
    req,          \* per thread: the request being handled
    env,          \* per thread: the local `env` of run_compose
    proc,         \* per thread: the CompletedProcess of the compose command
    result,       \* per thread: what run_compose returned (or raised)
    resp,         \* per thread: the response written to the client
    nTailscale,   \* per thread: tailscale processes spawned for this request
    nCompose,     \* per thread: compose processes spawned for this request
    nCalls,       \* per thread: calls of subprocess.run(COMPOSE + args) made
                  \* for this request, whether or not a process was started
    discovery,    \* per thread: how the address discovery of this call ended
    waited        \* per thread: the request arrived, and waited in the listen
                  \* backlog, while a compose command was executing

vars == <<environ, lock, running, backlog, received, pc, req, env, proc,
          result, resp, nTailscale, nCompose, nCalls, discovery, waited>>

\* ------------------------------------------------------------- requests
Request(m, p) == [method |-> m, path |-> p]
Requests ==
    { Request("GET", "/status"),
      Request("POST", "/restart-claude"),
      Request("POST", "/rebuild-claude"),
      Request("GET", "/nonexistent"),
      Request("GET", "/restart-claude"),
      Request("POST", "/status"),
      Request("OPTIONS", "/status"),
      Request("OPTIONS", "/nonexistent"),
      Request("PUT", "/status"),
      Request("DELETE", "/rebuild-claude") }
NoReq == [method |-> "", path |-> ""]

\* Methods for which Handler defines a do_<METHOD>.
HandledMethods == {"OPTIONS", "GET", "POST"}

\* The op_name a route passes to run_compose, None when it calls no gate.
OpNameByPath(r) ==
    IF r.path = "/status" THEN "status"
    ELSE IF r.path = "/restart-claude" THEN "restart"
    ELSE IF r.path = "/rebuild-claude" THEN "rebuild"
    ELSE None
OpName(r) ==
    IF r.method = "GET" /\ r.path = "/status" THEN "status"
    ELSE IF r.method = "POST" /\ r.path = "/restart-claude" THEN "restart"
    ELSE IF r.method = "POST" /\ r.path = "/rebuild-claude" THEN "rebuild"
    ELSE None

\* ------------------------------------------------------------ responses
NoBody == [kind |-> "none", ok |-> FALSE, output |-> ""]
ErrorBody == [kind |-> "error", ok |-> FALSE, output |-> "not found"]
HtmlBody == [kind |-> "html", ok |-> FALSE, output |-> "Unsupported method"]
ResultBody(ok, out) == [kind |-> "result", ok |-> ok, output |-> out]

NoResp == [code |-> 0, body |-> NoBody, cors |-> FALSE]

\* Handler._json: status line, Content-Type, the CORS headers, the body.
Json(code, data) == [code |-> code, body |-> data, cors |-> TRUE]

\* Handler.do_OPTIONS: 204, the three CORS headers of _cors, no body.
OptionsRespNoCors == [code |-> 204, body |-> NoBody, cors |-> FALSE]
OptionsResp == [code |-> 204, body |-> NoBody, cors |-> TRUE]

\* BaseHTTPRequestHandler.handle_one_request when the handler has no
\* do_<METHOD>: send_error(501), an HTML error page without the CORS headers.
UnsupportedResp == [code |-> 501, body |-> HtmlBody, cors |-> FALSE]

\* The handler died with an exception: the connection is closed, no response.
BrokenResp == [code |-> -1, body |-> NoBody, cors |-> FALSE]

\* ------------------------------------------------- results of run_compose
NoResult == [kind |-> "none", ok |-> FALSE, output |-> ""]
Return(ok, out) == [kind |-> "return", ok |-> ok, output |-> out]
Raised(msg) == [kind |-> "raise", ok |-> FALSE, output |-> msg]

\* f"Already running: {_running['op']}"
AlreadyRunning(op) == "Already running: " \o op

\* ----------------------------------------------------------- exceptions
TimeoutExpired(cmd, timeout) ==
    [type |-> "TimeoutExpired",
     msg |-> "Command '" \o cmd \o "' timed out after " \o ToString(timeout) \o " seconds"]
FileNotFoundError(cmd) ==
    [type |-> "FileNotFoundError",
     msg |-> "[Errno 2] No such file or directory: '" \o cmd \o "'"]

\* str(e)
Str(e) == e.msg

\* `except Exception`: both exception types derive from Exception.
CatchesOnlyTimeout(e) == e.type = "TimeoutExpired"
Catches(e) == e.type \in {"TimeoutExpired", "FileNotFoundError"}

\* --------------------------------------------------------- environment
\* Texts of addresses are sequences of tokens, so that strip() has work to do.
Whitespace == {" ", "\n"}
LOOPBACK == <<"127.0.0.1">>

Environments ==
    { [PATH |-> <<"/usr/bin">>],
      [PATH |-> <<"/usr/bin">>, TAILSCALE_IP |-> <<"100.64.0.9">>] }
NoEnv == [NONE |-> <<>>]

\* env[key] = value on a dict
SetVar(e, key, value) ==
    [k \in DOMAIN e \cup {key} |-> IF k = key THEN value ELSE e[k]]

RECURSIVE LStrip(_)
LStrip(s) == IF s # <<>> /\ Head(s) \in Whitespace THEN LStrip(Tail(s)) ELSE s
RECURSIVE RStrip(_)
RStrip(s) ==
    IF s # <<>> /\ s[Len(s)] \in Whitespace THEN RStrip(SubSeq(s, 1, Len(s) - 1)) ELSE s
\* str.strip()
Strip(s) == RStrip(LStrip(s))

\* What `tailscale ip -4` can print on success.
TailscaleStdouts == { <<"100.64.0.1", "\n">>, <<" ", "100.64.0.1">> }

\* What the compose command can leave behind: returncode, stdout, stderr.
NoProc == [returncode |-> -1, stdout |-> "", stderr |-> ""]
ComposeProcs == [returncode : {0, 1}, stdout : {"out;"}, stderr : {"err;"}]

\* ------------------------------------------------------------------ Init
AllThreads(v) == [t \in Threads |-> v]

Init ==
    /\ environ \in Environments
    /\ lock = NoThread
    /\ running = None
    /\ backlog = <<>>
    /\ received = 0
    /\ pc = AllThreads("idle")
    /\ req = AllThreads(NoReq)
    /\ env = AllThreads(NoEnv)
    /\ proc = AllThreads(NoProc)
    /\ result = AllThreads(NoResult)
    /\ resp = AllThreads(NoResp)
    /\ nTailscale = AllThreads(0)
    /\ nCompose = AllThreads(0)
    /\ nCalls = AllThreads(0)
    /\ discovery = AllThreads("none")
    /\ waited = AllThreads(FALSE)

\* A compose command started by run_compose is executing.
ComposeActive == \E u \in Threads : pc[u] = "compose"

\* ------------------------------------------------------------- the handler
\* The status a mutating route answers with: `200 if ok else 409`.
PostCodeAlways200(ok) == 200
PostCode(ok) == IF ok THEN 200 ELSE 409

\* The status GET /status answers with: always 200.
GetCodeFromOk(ok) == IF ok THEN 200 ELSE 409
GetCode(ok) == 200

\* Requests the handler answers without calling run_compose.
DirectResp(r) ==
    IF r.method \notin HandledMethods THEN UnsupportedResp
    ELSE IF r.method = "OPTIONS" THEN OptionsResp
    ELSE Json(404, ErrorBody)

\* The handler starts on request r: do_OPTIONS, do_GET, do_POST, or no method.
Dispatch(t, r, during) ==
    /\ req' = [req EXCEPT ![t] = r]
    /\ waited' = [waited EXCEPT ![t] = during]
    /\ env' = [env EXCEPT ![t] = NoEnv]
    /\ proc' = [proc EXCEPT ![t] = NoProc]
    /\ result' = [result EXCEPT ![t] = NoResult]
    /\ nTailscale' = [nTailscale EXCEPT ![t] = 0]
    /\ nCompose' = [nCompose EXCEPT ![t] = 0]
    /\ nCalls' = [nCalls EXCEPT ![t] = 0]
    /\ discovery' = [discovery EXCEPT ![t] = "none"]
    /\ IF OpName(r) = None
         THEN /\ resp' = [resp EXCEPT ![t] = DirectResp(r)]
              /\ pc' = [pc EXCEPT ![t] = "idle"]
         ELSE /\ resp' = [resp EXCEPT ![t] = NoResp]
              /\ pc' = [pc EXCEPT ![t] = "call"]
    /\ UNCHANGED <<environ, lock, running>>

\* Spec: a request arrives and a thread of its own, t, handles it at once;
\* it never waits in the backlog.
Receive(t, r) ==
    /\ pc[t] = "idle"
    /\ req[t] = NoReq
    /\ Dispatch(t, r, FALSE)
    /\ UNCHANGED <<backlog, received>>

\* SpecMain: a connection arrives and waits in the listen backlog.
Arrive(r) ==
    /\ received < MaxRequests
    /\ Len(backlog) < MaxBacklog
    /\ received' = received + 1
    /\ backlog' = Append(backlog, [request |-> r, during |-> ComposeActive])
    /\ UNCHANGED <<environ, lock, running, pc, req, env, proc, result, resp,
                   nTailscale, nCompose, nCalls, discovery, waited>>

\* SpecMain: serve_forever takes the next connection once the previous
\* request has been handled to completion.
Serve ==
    /\ pc[MainThread] = "idle"
    /\ backlog # <<>>
    /\ backlog' = Tail(backlog)
    /\ Dispatch(MainThread, Head(backlog).request, Head(backlog).during)
    /\ UNCHANGED received

\* ------------------------------------------------------------ run_compose
\* `if _running["op"]`: None and "" are falsy.
SlotFree == FALSE
SlotBusy == running # None /\ running # ""

\* Leaving a `with _lock:` block releases the lock.
ReleasedNever(t) == t
Released(t) == NoThread

\* Line 30: the rejected call returns (False, "Already running: <slot>").
RejectionOwnName(t) == Return(FALSE, AlreadyRunning(OpName(req[t])))
Rejection(t) == Return(FALSE, AlreadyRunning(running))

\* Lines 29-30: the rejected call returns before the try block and writes
\* nothing to the slot.
SlotAfterRejectCleared == None
SlotAfterReject == running

\* Line 31: _running["op"] = op_name
ClaimedFlag(t) == "busy"
ClaimedUnlessStatus(t) ==
    IF OpName(req[t]) = "status" THEN running ELSE OpName(req[t])
Claimed(t) == OpName(req[t])

\* `with _lock:` (line 28): enter the block.
AcquireLock(t) ==
    /\ pc[t] = "call"
    /\ lock = NoThread
    /\ lock' = t
    /\ pc' = [pc EXCEPT ![t] = "check"]
    /\ UNCHANGED <<environ, running, backlog, received, req, env, proc, result,
                   resp, nTailscale, nCompose, nCalls, discovery, waited>>

\* Lines 29-31: reject, or claim the slot; leaving the block frees the lock.
CheckAndSet(t) ==
    /\ pc[t] = "check"
    /\ lock = t
    /\ lock' = Released(t)
    /\ IF SlotBusy
         THEN /\ result' = [result EXCEPT ![t] = Rejection(t)]
              /\ pc' = [pc EXCEPT ![t] = "respond"]
              /\ running' = SlotAfterReject
         ELSE /\ running' = Claimed(t)
              /\ pc' = [pc EXCEPT ![t] = "try"]
              /\ UNCHANGED result
    /\ UNCHANGED <<environ, backlog, received, req, env, proc, resp,
                   nTailscale, nCompose, nCalls, discovery, waited>>

\* An exception e is raised inside the try block: `except Exception as e`
\* turns it into (False, str(e)); anything else goes on to the caller. Either
\* way the finally block runs next: nothing is tried again.
RaiseOrRetry(t, e) ==
    IF pc[t] = "compose"
      THEN /\ pc' = [pc EXCEPT ![t] = "spawn"]
           /\ UNCHANGED result
      ELSE /\ result' = [result EXCEPT ![t] =
                           IF Catches(e) THEN Return(FALSE, Str(e)) ELSE Raised(Str(e))]
           /\ pc' = [pc EXCEPT ![t] = "finally"]
Raise(t, e) ==
    /\ result' = [result EXCEPT ![t] =
                    IF Catches(e) THEN Return(FALSE, Str(e)) ELSE Raised(Str(e))]
    /\ pc' = [pc EXCEPT ![t] = "finally"]

\* Line 36: `if "TAILSCALE_IP" not in env`
NeedsDiscoveryAlways(e) == TRUE
NeedsDiscovery(e) == "TAILSCALE_IP" \notin DOMAIN e

\* Lines 34-36: env = os.environ.copy(); is TAILSCALE_IP in it?
CopyEnv(t) ==
    /\ pc[t] = "try"
    /\ env' = [env EXCEPT ![t] = environ]
    /\ pc' = [pc EXCEPT ![t] = IF NeedsDiscovery(environ) THEN "discover" ELSE "spawn"]
    /\ UNCHANGED <<environ, lock, running, backlog, received, req, proc, result,
                   resp, nTailscale, nCompose, nCalls, discovery, waited>>

\* Line 37: subprocess.run(["tailscale", "ip", "-4"], timeout=5) starts the
\* process, or fails to because the tool is missing.
SpawnTailscale(t) ==
    /\ pc[t] = "discover"
    /\ \/ /\ nTailscale' = [nTailscale EXCEPT ![t] = @ + 1]
          /\ pc' = [pc EXCEPT ![t] = "tailscale"]
          /\ UNCHANGED <<result, discovery>>
       \/ /\ Raise(t, FileNotFoundError("tailscale"))
          /\ discovery' = [discovery EXCEPT ![t] = "missing"]
          /\ UNCHANGED nTailscale
    /\ UNCHANGED <<environ, lock, running, backlog, received, req, env, proc,
                   resp, nCompose, nCalls, waited>>

\* Lines 37-44: the tailscale process exits zero, exits non-zero, or is killed
\* at the timeout (TimeoutExpired).
TailscaleExit(t) ==
    /\ pc[t] = "tailscale"
    /\ \/ \E out \in TailscaleStdouts :
            /\ env' = [env EXCEPT ![t] = SetVar(@, "TAILSCALE_IP", Strip(out))]
            /\ discovery' = [discovery EXCEPT ![t] = "zero"]
            /\ pc' = [pc EXCEPT ![t] = "spawn"]
            /\ UNCHANGED result
       \/ /\ env' = [env EXCEPT ![t] = SetVar(@, "TAILSCALE_IP", LOOPBACK)]
          /\ discovery' = [discovery EXCEPT ![t] = "nonzero"]
          /\ pc' = [pc EXCEPT ![t] = "spawn"]
          /\ UNCHANGED result
       \/ /\ Raise(t, TimeoutExpired("tailscale", TAILSCALE_TIMEOUT))
          /\ discovery' = [discovery EXCEPT ![t] = "timeout"]
          /\ UNCHANGED env
    /\ UNCHANGED <<environ, lock, running, backlog, received, req, proc, resp,
                   nTailscale, nCompose, nCalls, waited>>

\* Line 46: subprocess.run(COMPOSE + args, timeout=300, env=env) starts the
\* process, or fails to because docker is missing.
SpawnCompose(t) ==
    /\ pc[t] = "spawn"
    /\ nCalls' = [nCalls EXCEPT ![t] = @ + 1]
    /\ \/ /\ nCompose' = [nCompose EXCEPT ![t] = @ + 1]
          /\ pc' = [pc EXCEPT ![t] = "compose"]
          /\ UNCHANGED result
       \/ /\ Raise(t, FileNotFoundError("docker"))
          /\ UNCHANGED nCompose
    /\ UNCHANGED <<environ, lock, running, backlog, received, req, env, proc,
                   resp, nTailscale, discovery, waited>>

\* Line 50: return True, proc.stdout + proc.stderr
ComposeReturnChecked(p) == Return(p.returncode = 0, p.stdout \o p.stderr)
ComposeReturn(p) == Return(TRUE, p.stdout \o p.stderr)

\* Lines 46-50: the compose process terminates with some exit code, or is
\* killed at the timeout (TimeoutExpired).
ComposeExit(t) ==
    /\ pc[t] = "compose"
    /\ \/ \E p \in ComposeProcs :
            /\ proc' = [proc EXCEPT ![t] = p]
            /\ result' = [result EXCEPT ![t] = ComposeReturn(p)]
            /\ pc' = [pc EXCEPT ![t] = "finally"]
       \/ /\ Raise(t, TimeoutExpired("docker", COMPOSE_TIMEOUT))
          /\ UNCHANGED proc
    /\ UNCHANGED <<environ, lock, running, backlog, received, req, env, resp,
                   nTailscale, nCompose, nCalls, discovery, waited>>

\* `finally: with _lock:` (line 54): enter the block.
FinallyLock(t) ==
    /\ pc[t] = "finally"
    /\ lock = NoThread
    /\ lock' = t
    /\ pc' = [pc EXCEPT ![t] = "clear"]
    /\ UNCHANGED <<environ, running, backlog, received, req, env, proc, result,
                   resp, nTailscale, nCompose, nCalls, discovery, waited>>

\* Line 55: _running["op"] = None
ClearedKept(t) == running
ClearedOnSuccess(t) == IF result[t].ok THEN None ELSE running
Cleared(t) == None

\* Line 55, then run_compose returns (or lets the exception go on); its
\* locals are gone.
Release(t) ==
    /\ pc[t] = "clear"
    /\ lock = t
    /\ lock' = Released(t)
    /\ running' = Cleared(t)
    /\ env' = [env EXCEPT ![t] = NoEnv]
    /\ discovery' = [discovery EXCEPT ![t] = "none"]
    /\ pc' = [pc EXCEPT ![t] = "respond"]
    /\ UNCHANGED <<environ, backlog, received, req, proc, result, resp,
                   nTailscale, nCompose, nCalls, waited>>

\* do_GET / do_POST after run_compose: self._json(code, {"ok": ok, "output": out}).
\* An exception out of run_compose ends the handler without a response.
Respond(t) ==
    /\ pc[t] = "respond"
    /\ resp' = [resp EXCEPT ![t] =
                  IF result[t].kind = "raise" THEN BrokenResp
                  ELSE IF req[t].method = "GET"
                    THEN Json(GetCode(result[t].ok),
                              ResultBody(result[t].ok, result[t].output))
                    ELSE Json(PostCode(result[t].ok),
                              ResultBody(result[t].ok, result[t].output))]
    /\ result' = [result EXCEPT ![t] = NoResult]
    /\ pc' = [pc EXCEPT ![t] = "idle"]
    /\ UNCHANGED <<environ, lock, running, backlog, received, req, env, proc,
                   nTailscale, nCompose, nCalls, discovery, waited>>

\* One step of thread t inside the handler.
Step(t) ==
    \/ AcquireLock(t)
    \/ CheckAndSet(t)
    \/ CopyEnv(t)
    \/ SpawnTailscale(t)
    \/ TailscaleExit(t)
    \/ SpawnCompose(t)
    \/ ComposeExit(t)
    \/ FinallyLock(t)
    \/ Release(t)
    \/ Respond(t)

Next ==
    \/ \E t \in Threads, r \in Requests : Receive(t, r)
    \/ \E t \in Threads : Step(t)

Spec == Init /\ [][Next]_vars

NextMain ==
    \/ \E r \in Requests : Arrive(r)
    \/ Serve
    \/ Step(MainThread)

SpecMain == Init /\ [][NextMain]_vars

\* ---------------------------------------------------------------- claims
\* The two mutating routes.
Mutating(r) == OpName(r) \in {"restart", "rebuild"}

\* Thread t is between claiming the slot and clearing it.
Held(t) == pc[t] \in {"try", "discover", "tailscale", "spawn", "compose",
                      "finally", "clear"}

\* The handler of thread t has written its response.
Answered(t) == pc[t] = "idle" /\ resp[t] # NoResp

\* The compose command of thread t was started and killed at the timeout.
ComposeTimedOut(t) ==
    /\ nCompose[t] = 1
    /\ proc[t] = NoProc
    /\ pc[t] \in {"finally", "clear", "respond", "idle"}

\* C1: under every interleaving of requests to /restart-claude, /rebuild-claude
\* and /status, at most one compose command started by run_compose is
\* executing at any instant.
C1_AtMostOneComposeActive ==
    \A t, u \in Threads : pc[t] = "compose" /\ pc[u] = "compose" => t = u

\* C1 witness: a compose command is executing while another request has just
\* been turned away by the slot check.
C1_Witness ==
    \E t, u \in Threads :
        /\ t # u
        /\ pc[t] = "compose"
        /\ pc[u] = "respond"
        /\ result[u] = Return(FALSE, AlreadyRunning(OpName(req[t])))

\* C2 (as claimed): a request to a mutating route that was received while a
\* compose command was executing has no subprocess spawned for it and is
\* answered 409 with ok=false.
C2_ReceivedDuringIsRejected ==
    \A t \in Threads :
        Mutating(req[t]) /\ waited[t] =>
            /\ nTailscale[t] = 0
            /\ nCompose[t] = 0
            /\ Answered(t) => resp[t].code = 409 /\ ~resp[t].body.ok

\* C3: when an operation that claimed the slot leaves run_compose, on whatever
\* path, the slot is idle; and a call is turned away only while some other
\* operation is still between claiming and clearing the slot, never because
\* of one that has finished.
C3_SlotIdleAfterOperation ==
    [][\A t \in Threads :
          /\ (Held(t) /\ ~(Held(t))') => running' = None
          /\ (pc[t] = "check" /\ pc'[t] = "respond") =>
                \E u \in Threads : u # t /\ Held(u)]_vars

\* C3 witness: an operation failed on the compose timeout and was answered,
\* and a later call has claimed the slot.
C3_Witness ==
    \E t, u \in Threads :
        /\ t # u
        /\ Answered(t)
        /\ ComposeTimedOut(t)
        /\ ~resp[t].body.ok
        /\ pc[u] = "try"
        /\ running = OpName(req[u])

\* C4 (as claimed): POST /restart-claude that found the slot idle answers 200
\* and ok=true when the compose command exits zero, and 409 and ok=false when
\* it exits non-zero or times out.
C4_RestartStatusFollowsExitCode ==
    \A t \in Threads :
        Answered(t) /\ OpName(req[t]) = "restart" =>
            /\ proc[t].returncode = 0 => resp[t].code = 200 /\ resp[t].body.ok
            /\ proc[t].returncode = 1 \/ ComposeTimedOut(t) =>
                  resp[t].code = 409 /\ ~resp[t].body.ok

\* C4 (amended): POST /restart-claude that found the slot idle answers 200 and
\* ok=true when the compose command terminates within the timeout, whatever
\* its exit code, and 409 and ok=false when it times out.
C4_RestartStatusFollowsTermination ==
    \A t \in Threads :
        Answered(t) /\ OpName(req[t]) = "restart" =>
            /\ proc[t] # NoProc => resp[t].code = 200 /\ resp[t].body.ok
            /\ ComposeTimedOut(t) => resp[t].code = 409 /\ ~resp[t].body.ok

\* C4 witness: a restart whose compose command exited non-zero was answered
\* 200, and another whose compose command timed out was answered 409.
C4_Witness ==
    \E t, u \in Threads :
        /\ Answered(t) /\ OpName(req[t]) = "restart"
        /\ proc[t].returncode = 1 /\ resp[t].code = 200
        /\ Answered(u) /\ OpName(req[u]) = "restart"
        /\ ComposeTimedOut(u) /\ resp[u].code = 409

\* C5 (as claimed): when the address discovery fails in any way (non-zero
\* exit, timeout, missing tool), the overlay gets 127.0.0.1 and the operation
\* goes on to the compose command.
C5_DiscoveryFailureFallsBack ==
    \A t \in Threads :
        discovery[t] \in {"nonzero", "timeout", "missing"} =>
            /\ "TAILSCALE_IP" \in DOMAIN env[t]
            /\ env[t].TAILSCALE_IP = LOOPBACK
            /\ pc[t] \in {"spawn", "compose", "finally", "clear"}
            /\ result[t] # Return(FALSE, Str(TimeoutExpired("tailscale", TAILSCALE_TIMEOUT)))
            /\ result[t] # Return(FALSE, Str(FileNotFoundError("tailscale")))

\* C6: GET /status is always answered 200 with a body {ok, output} and the
\* CORS headers, whatever ok is.
C6_StatusAlways200 ==
    \A t \in Threads :
        Answered(t) /\ req[t] = Request("GET", "/status") =>
            /\ resp[t].code = 200
            /\ resp[t].body.kind = "result"
            /\ resp[t].cors

\* C6 witness: a GET /status turned away by the slot check (held by another
\* GET /status) and that other one, whose ps command timed out, both answered 200.
C6_Witness ==
    \E t, u \in Threads :
        /\ Answered(t) /\ req[t] = Request("GET", "/status")
        /\ resp[t] = Json(200, ResultBody(FALSE, AlreadyRunning("status")))
        /\ Answered(u) /\ req[u] = Request("GET", "/status")
        /\ ComposeTimedOut(u) /\ resp[u].code = 200 /\ ~resp[u].body.ok

\* C7 (as claimed): every request that is neither OPTIONS nor one of the three
\* routes is answered 404 with the JSON body {"error": "not found"}.
C7_UnmatchedIs404 ==
    \A t \in Threads :
        Answered(t) /\ OpName(req[t]) = None /\ req[t].method # "OPTIONS" =>
            resp[t] = Json(404, ErrorBody)

\* C8 (as claimed): no request's handling is delayed until another operation
\* completes: no received request is left waiting while an operation holds
\* the slot.
C8_NoRequestWaitsForAnOperation ==
    backlog # <<>> => \A t \in Threads : ~Held(t)

\* C9: run_compose always returns an (ok, output) pair and never raises to
\* the handler; a mutating route answers 200 exactly when ok is true and 409
\* exactly when ok is false.
C9_NeverRaisesStatusFromOk ==
    \A t \in Threads :
        /\ result[t].kind # "raise"
        /\ pc[t] = "respond" => result[t].kind = "return"
        /\ Answered(t) /\ Mutating(req[t]) =>
              /\ resp[t].body.kind = "result"
              /\ resp[t].code = (IF resp[t].body.ok THEN 200 ELSE 409)

\* C9 witness: the tailscale tool is missing (FileNotFoundError inside the
\* try block) and the mutating route answered 409 with the exception's text.
C9_Witness ==
    \E t \in Threads :
        /\ Answered(t) /\ Mutating(req[t])
        /\ resp[t] = Json(409, ResultBody(FALSE, Str(FileNotFoundError("tailscale"))))

\* C10: when the compose command was started and terminated within the
\* timeout, run_compose returns ok=true with stdout followed by stderr, for
\* every exit code.
C10_TerminatedCommandIsOk ==
    \A t \in Threads :
        proc[t] # NoProc =>
            /\ pc[t] \in {"finally", "clear", "respond"} =>
                  /\ result[t].kind = "return"
                  /\ result[t].ok
                  /\ result[t].output = proc[t].stdout \o proc[t].stderr
            /\ Answered(t) =>
                  /\ resp[t].body.ok
                  /\ resp[t].body.output = proc[t].stdout \o proc[t].stderr

\* C10 witness: run_compose has returned for a command that exited non-zero.
C10_Witness ==
    \E t \in Threads :
        /\ pc[t] = "respond"
        /\ proc[t].returncode = 1
        /\ result[t] = Return(TRUE, "out;err;")

\* The three operation names, and the texts a rejected call can return.
OpNames == {"status", "restart", "rebuild"}
RejectionTexts == { AlreadyRunning(o) : o \in OpNames }

\* Requests that do_GET and do_POST answer in their else branch.
Unrouted(r) ==
    \/ r.method = "GET" /\ r.path # "/status"
    \/ r.method = "POST" /\ r.path \notin {"/restart-claude", "/rebuild-claude"}

\* C11: an OPTIONS request on any path is answered 204 with no body and the
\* CORS headers, in every state of the slot, and never calls run_compose.
C11_OptionsIs204 ==
    \A t \in Threads :
        req[t].method = "OPTIONS" =>
            /\ pc[t] = "idle"
            /\ resp[t].code = 204
            /\ resp[t].body.kind = "none"
            /\ resp[t].cors
            /\ nTailscale[t] = 0 /\ nCalls[t] = 0

\* C11 witness: OPTIONS on an unknown path is answered 204 while another
\* request holds the slot and its compose command is executing.
C11_Witness ==
    \E t, u \in Threads :
        /\ Answered(t)
        /\ req[t] = Request("OPTIONS", "/nonexistent")
        /\ resp[t].code = 204
        /\ pc[u] = "compose"
        /\ running # None

\* C12: the slot is non-empty only while exactly one request is between
\* claiming and clearing it, and then holds that request's operation name;
\* when no request is in that region the slot is idle.
C12_SlotNamesItsHolder ==
    LET holders == { t \in Threads : Held(t) }
    IN /\ Cardinality(holders) <= 1
       /\ holders = {} => running = None
       /\ \A t \in holders : running = OpName(req[t]) /\ running \in OpNames

\* C12 witness: a rebuild holds the slot with its compose command executing
\* while another request is about to call run_compose.
C12_Witness ==
    \E t, u \in Threads :
        /\ t # u
        /\ pc[t] = "compose"
        /\ running = "rebuild"
        /\ pc[u] = "call"

\* C13: a call rejected on the occupied slot returns 'Already running: <op>'
\* with <op> the name of the operation holding the slot at the check, not
\* the name of the rejected call.
C13_RejectionNamesHolder ==
    [][\A t \in Threads :
          (pc[t] = "check" /\ pc'[t] = "respond") =>
              \E u \in Threads :
                  /\ u # t
                  /\ Held(u)
                  /\ result'[t] = Return(FALSE, AlreadyRunning(OpName(req[u])))]_vars

\* C13 witness: a restart was rejected with the name of the rebuild that
\* holds the slot.
C13_Witness ==
    \E t, u \in Threads :
        /\ t # u
        /\ pc[t] = "respond"
        /\ OpName(req[t]) = "restart"
        /\ result[t] = Return(FALSE, AlreadyRunning("rebuild"))
        /\ Held(u)
        /\ OpName(req[u]) = "rebuild"

\* C14: handling an OPTIONS request or a request answered 404 leaves the slot
\* (and the lock) unchanged and invokes no external command, whatever the
\* slot holds.
C14_DirectAnswersTouchNothing ==
    [][\A t \in Threads :
          (req'[t] # req[t] /\ (req'[t].method = "OPTIONS" \/ Unrouted(req'[t]))) =>
              /\ running' = running
              /\ lock' = lock
              /\ pc'[t] = "idle"
              /\ resp'[t].code \in {204, 404}
              /\ nTailscale'[t] = 0 /\ nCompose'[t] = 0 /\ nCalls'[t] = 0]_vars

\* C14 witness: GET on a mutating route's path was answered 404 while another
\* request holds the slot and its compose command is executing.
C14_Witness ==
    \E t, u \in Threads :
        /\ Answered(t)
        /\ req[t] = Request("GET", "/restart-claude")
        /\ resp[t] = Json(404, ErrorBody)
        /\ pc[u] = "compose"
        /\ running = OpName(req[u])

\* C15: when os.environ has TAILSCALE_IP, run_compose starts no address
\* discovery and the compose command gets the inherited environment
\* unchanged; the discovery is started only when TAILSCALE_IP is absent.
C15_OverrideSkipsDiscovery ==
    \A t \in Threads :
        /\ "TAILSCALE_IP" \in DOMAIN environ =>
              /\ nTailscale[t] = 0
              /\ pc[t] \notin {"discover", "tailscale"}
              /\ discovery[t] = "none"
              /\ pc[t] \in {"spawn", "compose", "finally", "clear"} => env[t] = environ
        /\ (nTailscale[t] > 0 \/ pc[t] \in {"discover", "tailscale"}) =>
              "TAILSCALE_IP" \notin DOMAIN environ

\* C15 witness: the compose command is executing with the inherited address
\* and no discovery was started.
C15_Witness ==
    \E t \in Threads :
        /\ pc[t] = "compose"
        /\ "TAILSCALE_IP" \in DOMAIN environ
        /\ env[t].TAILSCALE_IP = <<"100.64.0.9">>
        /\ nTailscale[t] = 0

\* C16: no retries. A request makes at most one call of the compose command
\* (and of the discovery): exactly one when it claimed the slot and the
\* address resolution did not raise, none when it was rejected or the address
\* resolution raised; a failed or timed-out call is not repeated.
C16_NoRetries ==
    \A t \in Threads :
        /\ nCalls[t] <= 1 /\ nCompose[t] <= nCalls[t] /\ nTailscale[t] <= 1
        /\ pc[t] \in {"call", "check"} => nCalls[t] = 0
        /\ pc[t] \in {"finally", "clear"} =>
              (nCalls[t] = 1 <=> discovery[t] \notin {"timeout", "missing"})
        /\ (pc[t] = "respond" /\ result[t].output \in RejectionTexts) => nCalls[t] = 0
        /\ (Answered(t) /\ resp[t].body.output \in RejectionTexts) => nCalls[t] = 0

\* C16 witness: one request's compose command timed out after a single call,
\* and another request was rejected without any call.
C16_Witness ==
    \E t, u \in Threads :
        /\ Answered(t) /\ ComposeTimedOut(t) /\ nCalls[t] = 1
        /\ Answered(u) /\ resp[u].body.output \in RejectionTexts /\ nCalls[u] = 0

C18_OnlyHolderClears ==
    /\ [][/\ \A t \in Threads :
                (pc[t] = "check" /\ pc'[t] = "respond") => running' = running
          /\ (running # None /\ running' # running) =>
                \E t \in Threads :
                    /\ pc[t] = "clear" /\ pc'[t] = "respond"
                    /\ running = OpName(req[t])
                    /\ running' = None]_vars
    /\ [](\A u \in Threads :
            pc[u] \in {"tailscale", "compose"} => running = OpName(req[u]))

\* C18 witness: a rejected call has returned and been answered while the
\* holder's compose command is still executing and the slot still names it.
C18_Witness ==
    \E t, u \in Threads :
        /\ t # u
        /\ Answered(t)
        /\ resp[t].body.output = AlreadyRunning(OpName(req[u]))
        /\ pc[u] = "compose"
        /\ running = OpName(req[u])
        /\ lock = NoThread

\* C19: with the HTTPServer of main, which handles one request to completion
\* before the next, the slot is idle at every call of run_compose and no call
\* is ever rejected.
C19_SerialServerNeverRejects ==
    \A t \in Threads :
        /\ pc[t] \in {"call", "check"} =>
              /\ running = None
              /\ \A u \in Threads : ~Held(u)
        /\ result[t].output \notin RejectionTexts
        /\ resp[t].body.output \notin RejectionTexts

\* C19 witness: a request that arrived while the previous request's compose
\* command was executing is at the slot check, and the slot is idle.
C19_Witness ==
    /\ pc[MainThread] = "check"
    /\ waited[MainThread]
    /\ running = None
    /\ received = 2

\* The scheduler lets every thread that can take a step take one, and every
\* external command returns, fails or times out.
Fairness == \A t \in Threads : WF_vars(Step(t))

SpecFair == Spec /\ Fairness

\* Thread t is inside run_compose: called and not yet returned.
InRunCompose(t) == pc[t] \in {"call", "check"} \/ Held(t)

\* C20: every request that enters run_compose eventually gets its result
\* (again and again a state is reached where no call is inside run_compose,
\* so no call stays inside forever), and _lock is held only inside the two
\* `with _lock:` blocks (the slot check-and-set and the slot clear), never
\* while an external command runs.
C20_EveryCallReturns ==
    /\ []<>(\A t \in Threads : ~InRunCompose(t))
    /\ [](lock # NoThread =>
            /\ pc[lock] \in {"check", "clear"}
            /\ \A u \in Threads : pc[u] \in {"tailscale", "compose"} => lock # u)

\* C20 witness: a call is waiting to enter `with _lock:` while another
\* call's compose command is executing, and the lock is free.
C20_Witness ==
    \E t, u \in Threads :
        /\ t # u
        /\ pc[t] = "call"
        /\ pc[u] = "compose"
        /\ lock = NoThread

====
